---- MODULE Spec2Model ----
(***************************************************************************)
(* A model of markusapi.Markus (src/markusapi/markusapi.py): the client    *)
(* object, its public operations, the request pipeline submit_request ->   *)
(* _do_submit_request, the helpers get_path / decode_text_response /       *)
(* decode_json_response, and the feedback-file upsert of                   *)
(* upload_feedback_file.                                                   *)
(*                                                                         *)
(* Python values are tagged records so that None, ints, strs, bytes, dicts *)
(* and lists stay distinguishable.  Python strings that the code builds    *)
(* (paths, header values) are TLA+ strings built with \o and ToString.     *)
(***************************************************************************)
EXTENDS Integers, Sequences, FiniteSets, TLC

VARIABLES
  ctor,     \* the arguments of Markus(api_key, url) and how __init__ ended
  self,     \* the constructed object's fields (api_key, parsed_url), or NoObject
  pc,       \* position of the call in progress: "idle" | "listed"
  call,     \* the public operation in progress or last finished, with its locals
  sent,     \* requests passed to conn.request() by that call, in order
  got,      \* raw responses [status, reason, body] read by that call, in order
  conns,    \* the connections that call created and the state each was left in
  outcome,  \* how the last finished call ended: returned value or raised error
  srv,      \* a MarkUs server's feedback files for one assignment/group, with its write log
  cl,       \* concurrent callers of upload_feedback_file against srv
  kw,       \* keyword arguments handed to get_path
  out       \* what get_path returned for kw

vars == <<ctor, self, pc, call, sent, got, conns, outcome, srv, cl, kw, out>>

---------------------------------------------------------------------------
(* Python values *)

None == [tag |-> "None"]
PyInt(i) == [tag |-> "int", v |-> i]
PyStr(s) == [tag |-> "str", v |-> s]
PyBytes(s) == [tag |-> "bytes", v |-> s]
PyDict(f) == [tag |-> "dict", fields |-> f]
PyList(s) == [tag |-> "list", items |-> s]

\* str(v)
Str(v) ==
  CASE v.tag = "int" -> ToString(v.v)
    [] v.tag = "str" -> v.v
    [] OTHER -> "None"

\* bool(v): the truth value Python gives v in `if v:`
Truthy(v) ==
  CASE v.tag = "None" -> FALSE
    [] v.tag = "int" -> v.v # 0
    [] v.tag = "str" -> v.v # ""
    [] OTHER -> TRUE

\* isinstance(v, str)
IsStr(v) == v.tag = "str"

\* d.get(k): the value under k, None when d has no key k
DictGet(d, k) == IF k \in DOMAIN d.fields THEN d.fields[k] ELSE None

\* a call's result: a value, or the exception it raised
Ok(v) == [ok |-> TRUE, val |-> v]
Raise(e) == [ok |-> FALSE, err |-> e]

\* sep.join(strs)
RECURSIVE Join(_, _)
Join(strs, sep) ==
  IF strs = <<>> THEN ""
  ELSE IF Len(strs) = 1 THEN strs[1]
  ELSE strs[1] \o sep \o Join(Tail(strs), sep)

---------------------------------------------------------------------------
(* Markus.get_path *)

API_PATH == "/api"

\* the test `v is not None` of get_path's comprehension, dropping the id 0 as
\* a truthiness test would
IsNotNoneFalsy(v) == Truthy(v)

\* the test `v is not None` of get_path's comprehension
IsNotNone(v) == v # None

\* [str(v) for vals in kwargs.items() for v in vals if v is not None]
RECURSIVE PathParts(_)
PathParts(kwargs) ==
  IF kwargs = <<>> THEN <<>>
  ELSE LET k == PyStr(kwargs[1][1])
           v == kwargs[1][2]
       IN (IF IsNotNone(k) THEN <<Str(k)>> ELSE <<>>)
          \o (IF IsNotNone(v) THEN <<Str(v)>> ELSE <<>>)
          \o PathParts(Tail(kwargs))

get_path(kwargs) == API_PATH \o "/" \o Join(PathParts(kwargs), "/")

---------------------------------------------------------------------------
(* Markus.__init__ *)

NoObject == [tag |-> "None"]

\* A URL as the caller writes it: leading white space, the scheme as typed
\* ("" when the text has no "scheme://" prefix), the network location and the
\* base path.
Urls ==
  [lead : {""}, raw_scheme : {"http", "HTTPS", "ftp", ""},
   netloc : {"markus.example.org"}, path : {"/markus"}]
  \cup {[lead |-> " ", raw_scheme |-> "http",
         netloc |-> "markus.example.org", path |-> "/markus"]}

ApiKeys == {"k3y=", "t0ken"}

\* urlparse lower-cases the scheme
Lower(s) ==
  CASE s = "HTTPS" -> "https"
    [] OTHER -> s

\* url.strip()
strip(url) == [url EXCEPT !.lead = ""]

\* urlparse(url): a text that does not start with its scheme has none, and
\* its whole text is the path
urlparse(url) ==
  IF url.lead = ""
  THEN [scheme |-> Lower(url.raw_scheme), netloc |-> url.netloc,
        path |-> url.path]
  ELSE [scheme |-> "", netloc |-> "",
        path |-> url.lead \o url.raw_scheme \o "://" \o url.netloc
                 \o url.path]

\* a constructor check that also lets ftp through
SchemeAcceptedLax(scheme) == scheme \in {"http", "https", "ftp"}

\* the condition of the assert in __init__
SchemeAccepted(scheme) == scheme \in {"http", "https"}

\* __init__: the object's fields, or NoObject when the assert fails
Markus_init(api_key, url) ==
  LET parsed_url == urlparse(strip(url))
  IN IF SchemeAccepted(parsed_url.scheme)
     THEN Ok([api_key |-> api_key, parsed_url |-> parsed_url])
     ELSE Raise("AssertionError")

---------------------------------------------------------------------------
(* Markus.submit_request and Markus._do_submit_request *)

FORM == "application/x-www-form-urlencoded"
MULTIPART == "multipart/form-data"
JSON == "application/json"

\* headers[name] = value on a dict kept as its items in insertion order
RECURSIVE DictSet(_, _, _)
DictSet(items, name, value) ==
  IF items = <<>> THEN <<<<name, value>>>>
  ELSE IF items[1][1] = name THEN <<<<name, value>>>> \o Tail(items)
  ELSE <<items[1]>> \o DictSet(Tail(items), name, value)

\* urlencode(params): a str, the percent-encoded query string of the mapping
urlencode(params) == [tag |-> "str", form |-> "urlencoded", of |-> params]

\* json.dumps(params): a str, the JSON text of the mapping
json_dumps(params) == [tag |-> "str", form |-> "json", of |-> params]

\* the body after the content-type dispatch of submit_request (lines 245-253)
EncodeBody(params, content_type) ==
  CASE content_type = FORM -> urlencode(params)
    [] content_type = MULTIPART -> params
    [] content_type = JSON -> json_dumps(params)
    [] OTHER -> params

\* a test that asks for the Accept header on every method
WantsAcceptAlways(request_type) == request_type \in {"GET", "POST", "PUT"}

\* `if request_type == 'GET'` of submit_request
WantsAccept(request_type) == request_type = "GET"

\* submit_request up to its call of _do_submit_request: the arguments of that
\* call, or the ValueError of line 255
submit_request(params, path, request_type, content_type) ==
  LET headers0 == <<<<"Content-type", content_type>>>>
      body == IF params # None THEN EncodeBody(params, content_type) ELSE params
      headers == IF WantsAccept(request_type)
                 THEN DictSet(headers0, "Accept", "text/plain")
                 ELSE headers0
  IN IF params # None /\ ~IsStr(body)
     THEN Raise("ValueError: params not a string")
     ELSE Ok([params |-> body, path |-> path,
              request_type |-> request_type, headers |-> headers])

\* _do_submit_request up to conn.request(): the connection object it creates
\* and the four arguments of conn.request, or the ValueError of line 279
do_submit_prepare(obj, req) ==
  LET auth_header == "MarkUsAuth " \o obj.api_key
      headers == DictSet(req.headers, "Authorization", auth_header)
      scheme == obj.parsed_url.scheme
  IN IF scheme \notin {"http", "https"}
     THEN Raise("ValueError: neither http nor https")
     ELSE Ok([conn |-> IF scheme = "http" THEN "HTTPConnection"
                       ELSE "HTTPSConnection",
              netloc |-> obj.parsed_url.netloc,
              method |-> req.request_type,
              url |-> obj.parsed_url.path \o req.path,
              path |-> req.path,
              body |-> req.params,
              headers |-> headers])

---------------------------------------------------------------------------
(* The network: what conn.request / getresponse / read can do *)

Statuses == {200, 404, 500}

Reason(status) ==
  CASE status = 200 -> "OK"
    [] status = 404 -> "Not Found"
    [] OTHER -> "Internal Server Error"

\* A response body: bytes that are not UTF-8, UTF-8 text that is not JSON,
\* or the UTF-8 text of a JSON value.
BinaryBody == [tag |-> "bytes", enc |-> "binary"]
TextBody == [tag |-> "bytes", enc |-> "text"]
JsonBody(value) == [tag |-> "bytes", enc |-> "json", value |-> value]

\* lst = [resp.status, resp.reason, resp.read()]
Response(status, body) == <<status, Reason(status), body>>

\* Where a socket operation can fail, and the state the library leaves the
\* socket in: a failed connect never opened one; after a failed send,
\* getresponse or read the library may or may not have closed it.
Faults ==
  {[at |-> "connect", sock |-> "never_connected"]}
  \cup [at : {"request", "getresponse", "read"}, sock : {"open", "closed"}]

---------------------------------------------------------------------------
(* Markus.decode_text_response and Markus.decode_json_response *)

\* a decoder that rejects error statuses before decoding
decode_text_response_checked(resp) ==
  IF resp[1] >= 400 THEN Raise("HTTPError")
  ELSE IF resp[3].enc = "binary" THEN Raise("UnicodeDecodeError")
  ELSE Ok([tag |-> "str", form |-> resp[3].enc, of |-> resp[3]])

\* resp[2].decode('utf-8')
decode_text_response(resp) ==
  IF resp[3].enc = "binary" THEN Raise("UnicodeDecodeError")
  ELSE Ok([tag |-> "str", form |-> resp[3].enc, of |-> resp[3]])

\* json.loads(Markus.decode_text_response(resp))
decode_json_response(resp) ==
  LET text == decode_text_response(resp)
  IN IF ~text.ok THEN text
     ELSE IF text.val.form # "json" THEN Raise("JSONDecodeError")
     ELSE Ok(text.val.of.value)

---------------------------------------------------------------------------
(* The public operations other than upload_feedback_file: what each hands  *)
(* to submit_request and which decoder it applies to the response.         *)

AssignmentId == PyInt(5)
GroupId == PyInt(12)
OtherId == PyInt(3)

Plan(params, path, request_type, content_type, decode) ==
  [params |-> params, path |-> path, request_type |-> request_type,
   content_type |-> content_type, decode |-> decode]

get_all_users == Plan(None, "/api/users.json", "GET", FORM, "json")

new_user ==
  Plan(PyDict([user_name |-> PyStr("c9smith"), type |-> PyStr("Student"),
               first_name |-> PyStr("A"), last_name |-> PyStr("B")]),
       "/api/users", "POST", FORM, "raw")

get_assignments == Plan(None, "/api/assignments.json", "GET", FORM, "json")

get_groups(assignment_id) ==
  Plan(None, get_path(<<<<"assignments", assignment_id>>>>) \o ".json",
       "GET", FORM, "json")

get_groups_by_name(assignment_id) ==
  Plan(None,
       get_path(<<<<"assignments", assignment_id>>,
                  <<"group_ids_by_name", None>>>>) \o ".json",
       "GET", FORM, "json")

get_group(assignment_id, group_id) ==
  Plan(None,
       get_path(<<<<"assignments", assignment_id>>,
                  <<"groups", group_id>>>>) \o ".json",
       "GET", FORM, "json")

get_feedback_files(assignment_id, group_id) ==
  Plan(PyDict(<<>>),
       get_path(<<<<"assignments", assignment_id>>, <<"groups", group_id>>,
                  <<"feedback_files", None>>>>) \o ".json",
       "GET", FORM, "json")

get_feedback_file(assignment_id, group_id, feedback_file_id) ==
  Plan(PyDict(<<>>),
       get_path(<<<<"assignments", assignment_id>>, <<"groups", group_id>>,
                  <<"feedback_files", feedback_file_id>>>>) \o ".json",
       "GET", FORM, "text")

get_marks_spreadsheet(spreadsheet_id) ==
  Plan(PyDict(<<>>),
       get_path(<<<<"grade_entry_forms", spreadsheet_id>>>>) \o ".json",
       "GET", FORM, "text")

upload_test_group_results(assignment_id, group_id) ==
  Plan(PyDict([test_run_id |-> PyInt(1), test_output |-> PyStr("{}")]),
       get_path(<<<<"assignments", assignment_id>>, <<"groups", group_id>>,
                  <<"test_group_results", None>>>>),
       "POST", FORM, "raw")

upload_annotations(assignment_id, group_id) ==
  Plan(PyDict([annotations |-> PyList(<<>>), force_complete |-> FALSE]),
       get_path(<<<<"assignments", assignment_id>>, <<"groups", group_id>>,
                  <<"add_annotations", None>>>>),
       "POST", JSON, "raw")

update_marks_single_group(assignment_id, group_id) ==
  Plan(PyDict([Correctness |-> PyInt(8), Style |-> PyStr("nil")]),
       get_path(<<<<"assignments", assignment_id>>, <<"groups", group_id>>,
                  <<"update_marks", None>>>>),
       "PUT", FORM, "raw")

update_marking_state(assignment_id, group_id) ==
  Plan(PyDict([marking_state |-> PyStr("complete")]),
       get_path(<<<<"assignments", assignment_id>>, <<"groups", group_id>>,
                  <<"update_marking_state", None>>>>),
       "PUT", FORM, "raw")

SimpleOps ==
  {"get_all_users", "new_user", "get_assignments", "get_groups",
   "get_groups_by_name", "get_group", "get_feedback_files",
   "get_feedback_file", "get_marks_spreadsheet", "upload_test_group_results",
   "upload_annotations", "update_marks_single_group", "update_marking_state"}

PlanOf(op) ==
  CASE op = "get_all_users" -> get_all_users
    [] op = "new_user" -> new_user
    [] op = "get_assignments" -> get_assignments
    [] op = "get_groups" -> get_groups(AssignmentId)
    [] op = "get_groups_by_name" -> get_groups_by_name(AssignmentId)
    [] op = "get_group" -> get_group(AssignmentId, GroupId)
    [] op = "get_feedback_files" -> get_feedback_files(AssignmentId, GroupId)
    [] op = "get_feedback_file" ->
         get_feedback_file(AssignmentId, GroupId, OtherId)
    [] op = "get_marks_spreadsheet" -> get_marks_spreadsheet(OtherId)
    [] op = "upload_test_group_results" ->
         upload_test_group_results(AssignmentId, GroupId)
    [] op = "upload_annotations" -> upload_annotations(AssignmentId, GroupId)
    [] op = "update_marks_single_group" ->
         update_marks_single_group(AssignmentId, GroupId)
    [] OTHER -> update_marking_state(AssignmentId, GroupId)

\* the decoder a plan names, applied to the raw response
Decode(decode, resp) ==
  CASE decode = "json" -> decode_json_response(resp)
    [] decode = "text" -> decode_text_response(resp)
    [] OTHER -> Ok(resp)

\* What the network does to one request: a fault, or a response.
IoOutcomes(bodies) ==
  [kind : {"fault"}, fault : Faults, resp : {<<>>}]
  \cup {[kind |-> "resp", fault |-> [at |-> "none", sock |-> "closed"],
         resp |-> Response(s, b)] : s \in Statuses, b \in bodies}

\* One pass through submit_request and _do_submit_request (lines 241-287)
\* under the network outcome io: its result, the request given to
\* conn.request(), the state the connection is left in, the response read.
RoundTrip(obj, params, path, request_type, content_type, io) ==
  LET req == submit_request(params, path, request_type, content_type)
      none == [sent |-> <<>>, conns |-> <<>>, got |-> <<>>]
  IN IF ~req.ok THEN [res |-> req] @@ none
     ELSE LET wire == do_submit_prepare(obj, req.val)
          IN IF ~wire.ok THEN [res |-> wire] @@ none
             ELSE IF io.kind = "fault"
             THEN [res |-> Raise("OSError"), sent |-> <<wire.val>>,
                   conns |-> <<io.fault.sock>>, got |-> <<>>]
             ELSE [res |-> Ok(io.resp), sent |-> <<wire.val>>,
                   conns |-> <<"closed">>, got |-> <<io.resp>>]

---------------------------------------------------------------------------
(* Markus.upload_feedback_file *)

\* the generator of line 155 over a list: the 'id' of the first element whose
\* 'filename' equals title; elements after the first match are never touched;
\* an element without a get method raises
RECURSIVE NextMatch(_, _)
NextMatch(items, title) ==
  IF items = <<>> THEN Ok(None)
  ELSE IF items[1].tag # "dict" THEN Raise("AttributeError")
  ELSE IF DictGet(items[1], "filename") = PyStr(title)
       THEN Ok(DictGet(items[1], "id"))
  ELSE NextMatch(Tail(items), title)

\* a lookup that never finds the file
FindFeedbackFileIdNever(feedback_files, title) == Ok(None)

\* line 155: next((ff.get('id') for ff in feedback_files
\*                 if ff.get('filename') == title), None)
\* Iterating a dict yields its keys, which are strs; other values of a JSON
\* document (null, numbers) are not iterable.
FindFeedbackFileId(feedback_files, title) ==
  CASE feedback_files.tag = "list" -> NextMatch(feedback_files.items, title)
    [] feedback_files.tag = "dict" ->
         IF DOMAIN feedback_files.fields = {} THEN Ok(None)
         ELSE Raise("AttributeError")
    [] OTHER -> Raise("TypeError")

\* a target that always creates
UploadTargetAlwaysPost(assignment_id, group_id, feedback_file_id) ==
  [path |-> get_path(<<<<"assignments", assignment_id>>,
                       <<"groups", group_id>>, <<"feedback_files", None>>>>),
   request_type |-> "POST"]

\* lines 156-160: the path and method of the write
UploadTarget(assignment_id, group_id, feedback_file_id) ==
  LET path == get_path(<<<<"assignments", assignment_id>>,
                         <<"groups", group_id>>, <<"feedback_files", None>>>>)
  IN IF Truthy(feedback_file_id)
     THEN [path |-> path \o "/" \o Str(feedback_file_id),
           request_type |-> "PUT"]
     ELSE [path |-> path, request_type |-> "POST"]

\* the file extension mimetypes.guess_type splits off the title
Extension(title) ==
  CASE title = "out.txt" -> ".txt"
    [] title = "b.txt" -> ".txt"
    [] title = "report.pdf" -> ".pdf"
    [] OTHER -> ""

\* a guess that falls back to a default type
guess_type_default(title) ==
  CASE Extension(title) = ".txt" -> PyStr("text/plain")
    [] Extension(title) = ".pdf" -> PyStr("application/pdf")
    [] OTHER -> PyStr("application/octet-stream")

\* mimetypes.guess_type(title)[0]
guess_type(title) ==
  CASE Extension(title) = ".txt" -> PyStr("text/plain")
    [] Extension(title) = ".pdf" -> PyStr("application/pdf")
    [] OTHER -> None

\* lines 162-163
ResolveMime(title, mime_type) ==
  IF mime_type = None THEN guess_type(title) ELSE mime_type

\* lines 168-181: the parameters and content type by the type of contents
UploadParams(title, contents, mime_type) ==
  IF IsStr(contents)
  THEN [params |-> PyDict([filename |-> PyStr(title),
                           file_content |-> contents,
                           mime_type |-> mime_type]),
        content_type |-> FORM]
  ELSE [params |-> PyDict([filename |-> PyBytes(title),
                           file_content |-> contents,
                           mime_type |-> PyBytes(mime_type.v)]),
        content_type |-> MULTIPART]

---------------------------------------------------------------------------
(* One client, called sequentially, against an arbitrary server *)

MaxListing == 2

Titles == {"out.txt", "data"}
Contents == {PyStr("all tests passed"), PyBytes("PNG")}
MimeArgs == {None, PyStr("text/plain")}

\* the elements a feedback-file listing may hold: entries with an id, an
\* entry without one, and an element that is not an object
ListedEntries ==
  {PyDict([id |-> PyInt(i), filename |-> PyStr(f)]) :
     i \in {0, 3}, f \in {"out.txt", "other.txt"}}
  \cup {PyDict([filename |-> PyStr("out.txt")]), PyStr("junk")}

RECURSIVE SeqsUpTo(_, _)
SeqsUpTo(S, n) ==
  IF n = 0 THEN {<<>>}
  ELSE LET shorter == SeqsUpTo(S, n - 1)
       IN shorter \cup {Append(s, x) : s \in shorter, x \in S}

ErrorObject ==
  PyDict([code |-> PyStr("404"), description |-> PyStr("not found")])

\* bodies a server can answer the listing request with
ListingBodies ==
  {JsonBody(PyList(l)) : l \in SeqsUpTo(ListedEntries, MaxListing)}
  \cup {JsonBody(ErrorObject), JsonBody(None), TextBody, BinaryBody}

\* bodies a server can answer any other request with
PlainBodies ==
  {JsonBody(PyList(<<>>)), JsonBody(ErrorObject), TextBody, BinaryBody}

Pending == [state |-> "pending", val |-> None, err |-> ""]
Finish(res) ==
  IF res.ok THEN [state |-> "returned", val |-> res.val, err |-> ""]
  ELSE [state |-> "raised", val |-> None, err |-> res.err]

NoCall == [op |-> "none"]

\* the variables of the other scenarios, untouched here
ClientFrame == UNCHANGED <<srv, cl, kw, out>>

ClientInit ==
  /\ ctor = [state |-> "none"]
  /\ self = NoObject
  /\ pc = "idle"
  /\ call = NoCall
  /\ sent = <<>>
  /\ got = <<>>
  /\ conns = <<>>
  /\ outcome = Pending

\* Markus(api_key, url)
Construct ==
  /\ ctor.state = "none"
  /\ \E api_key \in ApiKeys, url \in Urls :
       LET r == Markus_init(api_key, url)
       IN /\ ctor' = [state |-> IF r.ok THEN "constructed" ELSE "failed",
                      api_key |-> api_key, url |-> url]
          /\ self' = IF r.ok THEN r.val ELSE NoObject
  /\ UNCHANGED <<pc, call, sent, got, conns, outcome>>
  /\ ClientFrame

\* any operation other than upload_feedback_file, start to end
Invoke ==
  /\ self # NoObject
  /\ pc = "idle" /\ call = NoCall
  /\ \E op \in SimpleOps, io \in IoOutcomes(PlainBodies) :
       LET plan == PlanOf(op)
           rt == RoundTrip(self, plan.params, plan.path, plan.request_type,
                           plan.content_type, io)
           res == IF rt.res.ok THEN Decode(plan.decode, rt.res.val)
                  ELSE rt.res
       IN /\ call' = [op |-> op]
          /\ sent' = rt.sent
          /\ got' = rt.got
          /\ conns' = rt.conns
          /\ outcome' = Finish(res)
  /\ UNCHANGED <<ctor, self, pc>>
  /\ ClientFrame

\* upload_feedback_file, lines 152-155: the listing and the lookup
UploadBegin ==
  /\ self # NoObject
  /\ pc = "idle" /\ call = NoCall
  /\ \E title \in Titles, contents \in Contents, mime_type \in MimeArgs,
        overwrite \in BOOLEAN, io \in IoOutcomes(ListingBodies) :
     LET args == [op |-> "upload_feedback_file", title |-> title,
                  contents |-> contents, mime_type |-> mime_type,
                  overwrite |-> overwrite, feedback_file_id |-> None]
         plan == get_feedback_files(AssignmentId, GroupId)
         rt == RoundTrip(self, plan.params, plan.path, plan.request_type,
                         plan.content_type, io)
         feedback_files ==
           IF rt.res.ok THEN decode_json_response(rt.res.val) ELSE rt.res
         found == IF feedback_files.ok
                  THEN FindFeedbackFileId(feedback_files.val, title)
                  ELSE feedback_files
     IN IF ~overwrite
        THEN /\ call' = args
             /\ pc' = "listed"
             /\ sent' = <<>> /\ got' = <<>> /\ conns' = <<>>
             /\ outcome' = Pending
        ELSE /\ sent' = rt.sent /\ got' = rt.got /\ conns' = rt.conns
             /\ IF found.ok
                THEN /\ call' = [args EXCEPT !.feedback_file_id = found.val]
                     /\ pc' = "listed"
                     /\ outcome' = Pending
                ELSE /\ call' = args
                     /\ pc' = "idle"
                     /\ outcome' = Finish(found)
  /\ UNCHANGED <<ctor, self>>
  /\ ClientFrame

\* upload_feedback_file, lines 156-182: the write
UploadFinish ==
  /\ pc = "listed"
  /\ \E io \in IoOutcomes({TextBody}) :
     LET target == UploadTarget(AssignmentId, GroupId, call.feedback_file_id)
         mime_type == ResolveMime(call.title, call.mime_type)
         up == UploadParams(call.title, call.contents, mime_type)
         rt == RoundTrip(self, up.params, target.path, target.request_type,
                         up.content_type, io)
     IN IF mime_type = None
        THEN /\ outcome' = Finish(Raise("ValueError: mime_type"))
             /\ UNCHANGED <<sent, got, conns>>
        ELSE /\ outcome' = Finish(rt.res)
             /\ sent' = sent \o rt.sent
             /\ got' = got \o rt.got
             /\ conns' = conns \o rt.conns
  /\ pc' = "idle"
  /\ UNCHANGED <<ctor, self, call>>
  /\ ClientFrame

\* the caller takes the result or the exception of the finished call and goes
\* on; the finished call's locals (its connection objects among them) are gone
Resume ==
  /\ pc = "idle" /\ call # NoCall
  /\ call' = NoCall
  /\ sent' = <<>> /\ got' = <<>> /\ conns' = <<>>
  /\ outcome' = Pending
  /\ UNCHANGED <<ctor, self, pc>>
  /\ ClientFrame

ClientNext ==
  \/ Construct
  \/ Invoke
  \/ UploadBegin
  \/ UploadFinish
  \/ Resume

\* the other scenarios' variables, at rest
ServerIdle == [files |-> <<>>, next_id |-> 1, log |-> <<>>]
Init ==
  /\ ClientInit
  /\ srv = ServerIdle
  /\ cl = <<>>
  /\ kw = <<>>
  /\ out = None

Next == ClientNext

Spec == Init /\ [][Next]_vars

---------------------------------------------------------------------------
(* get_path on its own: any keyword arguments, then the call *)

MaxPairs == 2

CollectionNames == {"assignments", "groups", "group_ids_by_name"}
Identifiers == {None, PyInt(0), PyInt(5), PyInt(12)}

\* keyword arguments: a dict in insertion order, so no name occurs twice
Kwargs ==
  {s \in SeqsUpTo(CollectionNames \X Identifiers, MaxPairs) :
     \A i, j \in 1..Len(s) : s[i][1] = s[j][1] => i = j}

PathInit ==
  /\ ClientInit
  /\ srv = ServerIdle
  /\ cl = <<>>
  /\ kw \in Kwargs
  /\ out = None

\* Markus.get_path(**kw)
GetPathCall ==
  /\ out = None
  /\ out' = PyStr(get_path(kw))
  /\ UNCHANGED <<ctor, self, pc, call, sent, got, conns, outcome, srv, cl, kw>>

PathNext == GetPathCall

SpecPath == PathInit /\ [][PathNext]_vars

---------------------------------------------------------------------------
(* Callers of upload_feedback_file(overwrite=True) against a MarkUs server *)
(* that keeps the feedback files of one assignment and group: it lists     *)
(* them faithfully, gives each created file a fresh positive id, and       *)
(* replaces the file a PUT names.                                          *)

MaxUploads == 2

Callers == {1, 2}
SharedTitles == {"out.txt", "b.txt"}

\* the client object the callers share
SharedClient ==
  Markus_init("k3y=", [lead |-> "", raw_scheme |-> "http",
                       netloc |-> "markus.example.org",
                       path |-> "/markus"]).val

\* GET <collection>.json: the id and filename of every file, in id order
ServerListing(files) ==
  Response(200, JsonBody(PyList(
    [i \in 1..Len(files) |->
       PyDict([id |-> PyInt(files[i].id),
               filename |-> PyStr(files[i].filename)])])))

\* POST <collection> creates a file under the next id; PUT <collection>/<id>
\* replaces the file with that id.  Every write is logged with its author and
\* with the number of writes the server had applied when its author listed.
ServerApply(s, req, by, seen) ==
  LET form == req.body.of.fields
      n == Len(s.log) + 1
      entry == [by |-> by, method |-> req.method, path |-> req.path,
                title |-> form.filename.v, content |-> form.file_content,
                seen |-> seen]
      collection == get_path(<<<<"assignments", AssignmentId>>,
                               <<"groups", GroupId>>,
                               <<"feedback_files", None>>>>)
  IN IF req.method = "POST"
     THEN [files |-> Append(s.files,
                            [id |-> s.next_id, filename |-> form.filename.v,
                             content |-> form.file_content, born |-> n]),
           next_id |-> s.next_id + 1,
           log |-> Append(s.log, entry)]
     ELSE [files |->
             [k \in 1..Len(s.files) |->
                IF req.path = collection \o "/" \o ToString(s.files[k].id)
                THEN [s.files[k] EXCEPT !.filename = form.filename.v,
                                        !.content = form.file_content]
                ELSE s.files[k]],
           next_id |-> s.next_id,
           log |-> Append(s.log, entry)]

IdleCaller ==
  [pc |-> "idle", title |-> "", contents |-> None, feedback_file_id |-> None,
   seen |-> 0, done |-> 0]

ServerFrame == UNCHANGED <<ctor, self, pc, call, sent, got, conns, outcome, kw, out>>

\* upload_feedback_file, lines 152-155, by caller c: the listing is answered
\* from the server's files
CallerList(c) ==
  /\ cl[c].pc = "idle"
  /\ cl[c].done < MaxUploads
  /\ \E title \in SharedTitles :
       LET plan == get_feedback_files(AssignmentId, GroupId)
           req == submit_request(plan.params, plan.path, plan.request_type,
                                 plan.content_type)
           wire == do_submit_prepare(SharedClient, req.val)
           feedback_files == decode_json_response(ServerListing(srv.files))
           found == FindFeedbackFileId(feedback_files.val, title)
       IN /\ req.ok /\ wire.ok /\ wire.val.method = "GET"
          /\ feedback_files.ok /\ found.ok
          /\ cl' = [cl EXCEPT ![c] =
                      [pc |-> "listed", title |-> title,
                       contents |-> PyStr(ToString(c) \o "."
                                          \o ToString(cl[c].done + 1)),
                       feedback_file_id |-> found.val,
                       seen |-> Len(srv.log), done |-> cl[c].done]]
  /\ UNCHANGED srv
  /\ ServerFrame

\* upload_feedback_file, lines 156-182, by caller c: the write reaches the
\* server
CallerWrite(c) ==
  /\ cl[c].pc = "listed"
  /\ LET target == UploadTarget(AssignmentId, GroupId, cl[c].feedback_file_id)
         mime_type == ResolveMime(cl[c].title, None)
         up == UploadParams(cl[c].title, cl[c].contents, mime_type)
         req == submit_request(up.params, target.path, target.request_type,
                               up.content_type)
         wire == do_submit_prepare(SharedClient, req.val)
     IN /\ mime_type # None /\ req.ok /\ wire.ok
        /\ srv' = ServerApply(srv, wire.val, c, cl[c].seen)
  /\ cl' = [cl EXCEPT ![c] = [IdleCaller EXCEPT !.done = cl[c].done + 1]]
  /\ ServerFrame

\* a server already holding out.txt under id 1
SeededServer ==
  [files |-> <<[id |-> 1, filename |-> "out.txt", content |-> PyStr("old"),
               born |-> 0]>>,
   next_id |-> 2, log |-> <<>>]

ConcInit ==
  /\ ClientInit
  /\ kw = <<>>
  /\ out = None
  /\ srv \in {ServerIdle, SeededServer}
  /\ cl = [c \in Callers |-> IdleCaller]

\* calls may overlap: nothing orders one caller's listing and write against
\* the other's
ConcNext == \E c \in Callers : CallerList(c) \/ CallerWrite(c)

SpecConc == ConcInit /\ [][ConcNext]_vars

SeqInit ==
  /\ ClientInit
  /\ kw = <<>>
  /\ out = None
  /\ srv = ServerIdle
  /\ cl = [c \in Callers |-> IdleCaller]

\* a call starts only when no call is in progress
SeqList(c) ==
  /\ \A d \in Callers : cl[d].pc = "idle"
  /\ CallerList(c)

SeqNext == \E c \in Callers : SeqList(c) \/ CallerWrite(c)

SpecSeq == SeqInit /\ [][SeqNext]_vars

---------------------------------------------------------------------------
(* Properties of the single client (specification Spec) *)

\* a call has ended and its result has not been taken yet
Finished == pc = "idle" /\ call # NoCall
IsUpload == call.op = "upload_feedback_file"
Raised(e) == outcome.state = "raised" /\ outcome.err = e

MimeError == "ValueError: mime_type"
ShapeError == "ValueError: params not a string"
SchemeError == "ValueError: neither http nor https"
DecodeErrors ==
  {"UnicodeDecodeError", "JSONDecodeError", "AttributeError", "TypeError"}

CollectionPath == "/api/assignments/5/groups/12/feedback_files"
TitlesWithoutExtension == {"data"}
MimeResolvable == call.mime_type # None \/ call.title \notin TitlesWithoutExtension

\* the operations whose return statement decodes JSON, resp. text
JsonOps ==
  {"get_all_users", "get_assignments", "get_groups", "get_groups_by_name",
   "get_group", "get_feedback_files"}
TextOps == {"get_feedback_file", "get_marks_spreadsheet"}

HeaderValues(headers, name) ==
  {i \in 1..Len(headers) : headers[i][1] = name}
IsWrite(req) == req.method \in {"POST", "PUT"}
NoWriteSent == \A i \in 1..Len(sent) : ~IsWrite(sent[i])

\* the entries of the listing the call read whose filename is the title and
\* which carry an id
MatchingEntries ==
  LET items == got[1][3].value.items
  IN {i \in 1..Len(items) :
        /\ items[i].tag = "dict"
        /\ DOMAIN items[i].fields = {"id", "filename"}
        /\ items[i].fields.filename = PyStr(call.title)}

\* C1: an upload with overwrite=True that got through sent the GET listing and
\* then exactly one write: a PUT to <collection>/<id> of an entry of the
\* listing whose filename is the title when there is such an entry, whatever
\* the id's value, and a POST to the collection path when there is none.
C1_OverwritePutsToMatchingEntry ==
  (Finished /\ IsUpload /\ call.overwrite /\ outcome.state = "returned") =>
    /\ Len(sent) = 2
    /\ sent[1].method = "GET"
    /\ sent[1].path = CollectionPath \o ".json"
    /\ IF MatchingEntries # {}
       THEN /\ sent[2].method = "PUT"
            /\ \E i \in MatchingEntries :
                 sent[2].path = CollectionPath \o "/"
                   \o Str(got[1][3].value.items[i].fields.id)
       ELSE /\ sent[2].method = "POST"
            /\ sent[2].path = CollectionPath

\* C2: an upload of bytes contents with a resolvable mime type does not fail
\* in the body encoder; its write goes out as multipart/form-data with the
\* byte-encoded parameters unchanged as the body.
C2_BytesUploadReachesTransport ==
  (Finished /\ IsUpload /\ call.contents.tag = "bytes" /\ MimeResolvable) =>
    /\ ~Raised(ShapeError)
    /\ outcome.state = "returned" =>
         LET w == sent[Len(sent)]
         IN /\ \E i \in HeaderValues(w.headers, "Content-type") :
                 w.headers[i][2] = MULTIPART
            /\ w.body.tag = "dict"
            /\ w.body.fields.filename = PyBytes(call.title)
            /\ w.body.fields.file_content = call.contents

\* C3: whether an operation raises never depends on the status of a response.
\* A raise has a local cause, a transport fault, or a body its decoder cannot
\* take; an operation that returns the raw triple returns it with the status
\* as received; an operation that decodes raises exactly when the body is not
\* decodable, whatever the status.
C3_StatusNeverDecidesOutcome ==
  Finished =>
    /\ outcome.state = "raised" =>
         \/ outcome.err = "OSError" /\ Len(got) < Len(sent)
         \/ outcome.err = "UnicodeDecodeError" /\ got[1][3].enc = "binary"
         \/ outcome.err = "JSONDecodeError" /\ got[1][3].enc = "text"
         \/ /\ outcome.err \in {"AttributeError", "TypeError"}
            /\ IsUpload /\ got[1][3].enc = "json"
         \/ outcome.err = MimeError /\ IsUpload /\ ~MimeResolvable
         \/ outcome.err = ShapeError /\ IsUpload /\ call.contents.tag = "bytes"
    /\ (~IsUpload /\ Len(got) = 1) =>
         LET body == got[1][3]
             undecodable ==
               \/ call.op \in JsonOps /\ body.enc # "json"
               \/ call.op \in TextOps /\ body.enc = "binary"
         IN /\ (outcome.state = "raised") <=> undecodable
            /\ (call.op \notin JsonOps \cup TextOps) => outcome.val = got[1]
            /\ (call.op \in JsonOps /\ ~undecodable) => outcome.val = body.value
    /\ (IsUpload /\ Len(got) = Len(sent) /\ Len(sent) >= 1) =>
         \/ outcome.state = "returned" /\ outcome.val = got[Len(got)]
         \/ outcome.err \in DecodeErrors /\ got[1][3].enc # "json"
         \/ outcome.err \in {"AttributeError", "TypeError"}
            /\ (got[1][3].value.tag # "list"
                \/ \E i \in 1..Len(got[1][3].value.items) :
                     got[1][3].value.items[i].tag # "dict")
         \/ outcome.err \in {MimeError, ShapeError}

\* an upload whose listing came back 500 and whose write came back 404
\* returned the raw triple of the write
C3_Witness ==
  /\ Finished /\ IsUpload /\ outcome.state = "returned"
  /\ Len(got) = 2 /\ got[1][1] = 500 /\ got[2][1] = 404
  /\ outcome.val[1] = 404

\* C4: every request given to the network carries exactly one Content-type
\* header, exactly one Authorization header "MarkUsAuth <token given at
\* construction>", and Accept: text/plain if and only if its method is GET.
C4_HeadersOnEveryRequest ==
  \A i \in 1..Len(sent) :
    LET h == sent[i].headers
    IN /\ Cardinality(HeaderValues(h, "Content-type")) = 1
       /\ Cardinality(HeaderValues(h, "Authorization")) = 1
       /\ \A j \in HeaderValues(h, "Authorization") :
            h[j][2] = "MarkUsAuth " \o ctor.api_key
       /\ IF sent[i].method = "GET"
          THEN /\ Cardinality(HeaderValues(h, "Accept")) = 1
               /\ \A j \in HeaderValues(h, "Accept") : h[j][2] = "text/plain"
          ELSE HeaderValues(h, "Accept") = {}

\* one call sent a GET and then a PUT
C4_Witness ==
  /\ Len(sent) = 2 /\ sent[1].method = "GET" /\ sent[2].method = "PUT"
  /\ ctor.api_key = "t0ken"

\* C5: when no operation is in progress, no connection the last call created
\* is still open, also when a socket operation of that call failed.
C5_NoConnectionLeftOpen ==
  Finished => \A i \in 1..Len(conns) : conns[i] # "open"

\* C6: an upload whose mime type is neither given nor derivable from the title
\* raises, and an upload that raised the mime-type or the body-shape ValueError
\* has sent no POST and no PUT, for either value of overwrite.
C6_LocalFailureSendsNoWrite ==
  (Finished /\ IsUpload) =>
    /\ ~MimeResolvable =>
         /\ outcome.state = "raised"
         /\ NoWriteSent
         /\ \/ outcome.err = MimeError
            \/ call.overwrite /\ outcome.err \in DecodeErrors \cup {"OSError"}
    /\ (Raised(MimeError) \/ Raised(ShapeError)) => NoWriteSent

\* an overwriting upload listed the files and then failed on the mime type
C6_Witness ==
  /\ Finished /\ IsUpload /\ call.overwrite /\ Raised(MimeError)
  /\ Len(sent) = 1 /\ sent[1].method = "GET"

\* C9: construction succeeds exactly when the parsed scheme is http or https,
\* and no operation of a constructed client raises the scheme ValueError of
\* _do_submit_request.
C9_SchemeGuardNeverTaken ==
  /\ ctor.state # "none" =>
       /\ (ctor.state = "constructed") <=>
            (urlparse(strip(ctor.url)).scheme \in {"http", "https"})
       /\ (ctor.state = "failed") <=> (self = NoObject)
  /\ ~Raised(SchemeError)
  /\ self # NoObject => self.parsed_url.scheme \in {"http", "https"}

\* a client built from an upper-case HTTPS URL completed a round trip
C9_Witness ==
  /\ ctor.state = "constructed" /\ ctor.url.raw_scheme = "HTTPS"
  /\ Finished /\ outcome.state = "returned" /\ Len(sent) >= 1
  /\ sent[1].conn = "HTTPSConnection"

---------------------------------------------------------------------------
(* Properties of get_path (specification SpecPath) *)

\* "/<collection>" and then "/<identifier>" for each pair in order, the
\* identifier segment left out exactly when the identifier is None
RECURSIVE PairSegments(_)
PairSegments(kwargs) ==
  IF kwargs = <<>> THEN ""
  ELSE "/" \o kwargs[1][1]
       \o (IF kwargs[1][2] = None THEN "" ELSE "/" \o Str(kwargs[1][2]))
       \o PairSegments(Tail(kwargs))

\* C8 as stated: for every sequence of pairs get_path returns "/api" followed
\* by the pairs' segments.
C8_PathIsRootThenSegments ==
  out # None => out.v = "/api" \o PairSegments(kw)

\* C8: for every non-empty sequence of pairs get_path returns "/api" followed
\* by "/<collection>" and "/<identifier>" per pair, the identifier left out
\* exactly when it is None (0 is kept); for no pairs at all it returns "/api/".
C8_PathOfNonEmptyKwargs ==
  out # None =>
    IF kw = <<>> THEN out.v = "/api/"
    ELSE out.v = "/api" \o PairSegments(kw)

\* the two paths the specification gives, and a kept identifier 0
C8_Witness ==
  /\ kw = <<<<"assignments", PyInt(5)>>, <<"group_ids_by_name", None>>>>
  /\ out = PyStr("/api/assignments/5/group_ids_by_name")
  /\ get_path(<<<<"assignments", PyInt(5)>>, <<"groups", PyInt(12)>>>>)
       = "/api/assignments/5/groups/12"
  /\ get_path(<<<<"groups", PyInt(0)>>>>) = "/api/groups/0"

---------------------------------------------------------------------------
(* Properties of the upsert against the server (SpecConc, SpecSeq) *)

\* writes i and j, by different callers and of the same filename, were both
\* decided on a listing of the same server state: each caller listed before
\* the other wrote
Raced(i, j) ==
  /\ i < j
  /\ srv.log[i].by # srv.log[j].by
  /\ srv.log[i].title = srv.log[j].title
  /\ srv.log[i].seen = srv.log[j].seen

\* the files of that name the server held after its first n writes
HeldAfter(title, n) ==
  {k \in 1..Len(srv.files) :
     srv.files[k].filename = title /\ srv.files[k].born <= n}

FirstOf(S) == CHOOSE k \in S : \A l \in S : k <= l

DuplicateBy(i, j) ==
  /\ srv.log[i].method = "POST" /\ srv.log[j].method = "POST"
  /\ \E k, l \in 1..Len(srv.files) :
       /\ k # l
       /\ srv.files[k].filename = srv.files[l].filename
       /\ srv.files[k].born = i /\ srv.files[l].born = j

LostUpdateBy(i, j) ==
  /\ srv.log[i].method = "PUT" /\ srv.log[j].method = "PUT"
  /\ srv.log[i].path = srv.log[j].path
  /\ srv.log[i].path = CollectionPath \o "/"
       \o ToString(srv.files[FirstOf(HeldAfter(srv.log[i].title,
                                               srv.log[i].seen))].id)
  /\ \A k \in 1..Len(srv.files) : srv.files[k].content # srv.log[i].content

\* C7: two overlapping uploads of one filename are not atomic.  Whenever both
\* callers listed before either wrote: if the server held no file of that
\* name, both POST and the server ends up with two files of the same
\* filename; if it held one, both PUT to that file's id and the content of the
\* first write is gone from the server.
C7_OverlappingUpsertsCollide ==
  \A i, j \in 1..Len(srv.log) :
    Raced(i, j) =>
      IF HeldAfter(srv.log[i].title, srv.log[i].seen) = {}
      THEN DuplicateBy(i, j)
      ELSE LostUpdateBy(i, j)

\* one run in which a race from an empty server left a duplicate and a race on
\* the then existing file lost an update
C7_Witness ==
  /\ srv.files # <<>> /\ srv.files[1].born # 0
  /\ \E i, j \in 1..Len(srv.log) : Raced(i, j) /\ DuplicateBy(i, j)
  /\ \E i, j \in 1..Len(srv.log) : Raced(i, j) /\ LostUpdateBy(i, j)

\* C10: with calls that do not overlap, starting from no files, the server
\* never holds two files of one filename: the first upload of a filename is a
\* POST to the collection and every later one a PUT to the id that POST
\* created.
C10_SequentialUpsertKeepsNamesUnique ==
  /\ \A k, l \in 1..Len(srv.files) :
       srv.files[k].filename = srv.files[l].filename => k = l
  /\ \A j \in 1..Len(srv.log) :
       LET earlier == {i \in 1..(j - 1) : srv.log[i].title = srv.log[j].title}
       IN IF earlier = {}
          THEN /\ srv.log[j].method = "POST"
               /\ srv.log[j].path = CollectionPath
          ELSE /\ srv.log[j].method = "PUT"
               /\ \E k \in 1..Len(srv.files) :
                    /\ srv.files[k].born = FirstOf(earlier)
                    /\ srv.files[k].id > 0
                    /\ srv.log[j].path = CollectionPath \o "/"
                         \o ToString(srv.files[k].id)

\* a filename uploaded three times: created once, then replaced twice, next to
\* a second filename
C10_Witness ==
  /\ Len(srv.log) = 4 /\ Len(srv.files) = 2
  /\ \E i, j, k \in 1..4 :
       /\ i < j /\ j < k
       /\ srv.log[i].title = "out.txt" /\ srv.log[i].method = "POST"
       /\ srv.log[j].title = "out.txt" /\ srv.log[j].method = "PUT"
       /\ srv.log[k].title = "out.txt" /\ srv.log[k].method = "PUT"
       /\ srv.files[1].content = srv.log[k].content

====
